---- MODULE Spec2Model ----
(***************************************************************************)
(* Profile image upload + crop pipeline of src/unnamed/part_001            *)
(* (profile image upload handler, lines 1-236, and profile image cropping  *)
(* handler, lines 238-440).                                                *)
(*                                                                         *)
(* The DOM elements the two handlers share are the state: the file input,  *)
(* the delete checkbox, the "hidden" class of the four regions, the        *)
(* preview image source, the module-level `cropper` reference, and the     *)
(* asynchronous operations in flight (FileReader reads, canvas.toBlob).    *)
(* Every event handler and every resolution callback is one action.        *)
(*                                                                         *)
(* Two further pages have specifications of their own: the identity        *)
(* verification button of stripe_identity_verification.ts (SpecVerify) and *)
(* the links formset of profile_links.ts (SpecLinks).                      *)
(***************************************************************************)
EXTENDS Integers, Sequences, FiniteSets, TLC

VARIABLES
    fileField,      \* fileInput.files, a sequence of files (a FileList)
    deleteChecked,  \* deleteInput.checked
    previewSrc,     \* previewImage.src
    dropHidden,     \* dropZone.classList has "hidden"
    existingHidden, \* existingImageContainer.classList has "hidden"
    previewHidden,  \* previewContainer.classList has "hidden"
    highlighted,    \* dropZone carries the "border-primary bg-primary/10" classes
    dragDefaults,   \* drag events on dropZone whose default action the browser ran
    modalHidden,    \* cropModal.classList has "hidden"
    cropper,        \* `let cropper`: 0 is null, else the id of the instance
    live,           \* ids of the Cropper instances constructed and not destroyed
    selBefore,      \* history: the Snapshot taken just before the latest selection
    cropImageSrc,   \* cropImage.src
    cropHook,       \* window.showProfileImageCrop is registered
    pickerOpen,     \* the native file picker is open (fileInput.click()); it is
                    \* modal: the page gets no other gesture until it closes
    fileReads,      \* FileReader reads started by showPreview, not yet resolved
    encodes,        \* canvas.toBlob calls started by getCroppedImage, not yet resolved
    blobReads,      \* FileReader reads started by handleCropConfirm, not yet resolved
    notice,         \* the alert() raised by the last handler, null when none
    nSelect,        \* selections made so far (bounded by MaxSelections)
    uploadState,    \* history: the UploadState of spec section 3
    scenario,       \* history: progress through the end-to-end scenario
    stripe,         \* identity page: `stripe` is not null (loadStripe gave an instance)
    btnDisabled,    \* identity page: startButton.disabled
    flows,          \* identity page: runs of startVerificationFlow at an await
    toast,          \* identity page: the last showNotification call, NoToast when none
    nClicks,        \* identity page: clicks made so far (bounded by MaxClicks)
    totalForms,     \* links formset: totalFormsInput.value, a string of decimal digits
    rows,           \* links formset: the .link-form rows of the container, in order
    initialForms,   \* links formset, history: TOTAL_FORMS as rendered
    nAdds           \* links formset, history: add clicks so far (bounded by MaxAdds)

vars == <<fileField, deleteChecked, previewSrc, dropHidden, existingHidden,
          previewHidden, highlighted, dragDefaults, modalHidden, cropper, live,
          selBefore, cropImageSrc, cropHook, pickerOpen, fileReads, encodes, blobReads,
          notice, nSelect, uploadState, scenario,
          stripe, btnDisabled, flows, toast, nClicks,
          totalForms, rows, initialForms, nAdds>>

\* The part of the state the form submits and the three non-modal regions show.
uploadVars == <<fileField, deleteChecked, previewSrc, dropHidden,
                existingHidden, previewHidden>>

\* The state of the identity-verification page.
verifyVars == <<stripe, btnDisabled, flows, toast, nClicks>>

\* The state of the profile links formset.
linksVars == <<totalForms, rows, initialForms, nAdds>>

\* The state of the pages other than the profile image form.
otherPages == <<verifyVars, linksVars>>

\* What the drag listeners of the drop zone write.
dragVars == <<highlighted, dragDefaults>>

-----------------------------------------------------------------------------
(* Bounds of the model *)

MaxSelections == 2
MaxPendingEncodes == 1
MaxClicks == 6
MaxAdds == 2

-----------------------------------------------------------------------------
(* Constants of the program *)

null == "null"

\* No showNotification call yet: a notification with no message and no tags.
NoToast == [message |-> "", tags |-> ""]

MAX_FILE_SIZE == 5 * 1024 * 1024

ALLOWED_TYPES == {"image/jpeg", "image/png", "image/webp", "image/heic",
                  "image/heif", "image/jxl", "image/jp2"}

UnsupportedMsg ==
    "Unsupported image format. Allowed: JPEG, PNG, WebP, HEIC, JPEGXL, JPEG2000."

TooLargeMsg == "Image file too large. Maximum size is 5MB."

CropFailedMsg == "Failed to crop image. Please try again."

CropFileName == "profile-image.webp"

CropMimeType == "image/webp"

-----------------------------------------------------------------------------
(* The inputs: the files a user may pick or drop *)

\* The natural pixel size of the image stored in the file with bytes `id`.
ImageSize(id) ==
    CASE id = "A" -> [width |-> 4000, height |-> 3000]
      [] id = "B" -> [width |-> 300,  height |-> 500]
      [] OTHER    -> [width |-> 640,  height |-> 480]

RawData(id) ==
    [kind |-> "raw", of |-> id,
     width |-> ImageSize(id).width, height |-> ImageSize(id).height]

Candidates ==
    { [name |-> "a.png",  type |-> "image/png",  size |-> MAX_FILE_SIZE,
       data |-> RawData("A")],
      [name |-> "b.jp2",  type |-> "image/jp2",  size |-> 1024,
       data |-> RawData("B")],
      [name |-> "g.gif",  type |-> "image/gif",  size |-> 1024,
       data |-> RawData("G")],
      [name |-> "h.gif",  type |-> "image/gif",  size |-> MAX_FILE_SIZE + 1,
       data |-> RawData("H")],
      [name |-> "j.jpg",  type |-> "image/jpeg", size |-> MAX_FILE_SIZE + 1,
       data |-> RawData("J")] }

NoSrc == [scheme |-> "none", mime |-> "", data |-> [kind |-> "none", of |-> ""]]

\* FileReader.readAsDataURL: "data:<type>;base64,<the bytes>"
DataURL(blob) == [scheme |-> "data", mime |-> blob.type, data |-> blob.data]

-----------------------------------------------------------------------------
(* Pure functions of the program *)

\* Mutant of validateFile: the ceiling itself is refused.
validateFile_CeilingRefused(file) ==
    IF file.type \notin ALLOWED_TYPES THEN UnsupportedMsg
    ELSE IF file.size >= MAX_FILE_SIZE THEN TooLargeMsg
    ELSE null

validateFile(file) ==
    IF file.type \notin ALLOWED_TYPES THEN UnsupportedMsg
    ELSE IF file.size > MAX_FILE_SIZE THEN TooLargeMsg
    ELSE null

\* The crop box keeps `aspectRatio: 1` (width : height).
AspectRatio == [w |-> 1, h |-> 1]

\* The `width` and `height` options of getCroppedCanvas.
CanvasWidth == 2048
CanvasHeight == 2048

\* The encoder quality of toBlob, 0.95, in hundredths.
Quality == 95

\* Cropper.js sizes the canvas of getCroppedCanvas to the largest rectangle of
\* the crop box's aspect ratio contained in the requested width x height.
AdjustedSizes(ratio, width, height) ==
    IF height * ratio.w > width * ratio.h
    THEN [width |-> width, height |-> (width * ratio.h) \div ratio.w]
    ELSE [width |-> (height * ratio.w) \div ratio.h, height |-> height]

\* canvas.toBlob(cb, "image/webp", 0.95): the blob the callback receives on
\* success, for a canvas drawn from the editor bound to image `canvas.src`.
CroppedBlob(canvas) ==
    [type |-> CropMimeType,
     data |-> [kind |-> "crop", of |-> canvas.src.data.of,
               width |-> canvas.width, height |-> canvas.height,
               quality |-> Quality]]

\* new File([blob], "profile-image.webp", {type: "image/webp"}); the byte size
\* of the encoded blob is read by no handler.
CropFile(blob) ==
    [name |-> CropFileName, type |-> CropMimeType, size |-> 0, data |-> blob.data]

\* `if (cropper) { cropper.destroy(); }` on the instances alive.
Destroy(insts, i) ==
    IF i = 0 THEN insts ELSE insts \ {i}

\* Two operations in flight on the same payload are told apart by a number:
\* the least one not in use for that payload.
FreshId(tasks, payload) ==
    CHOOSE i \in 1..(Cardinality(tasks) + 1) :
        /\ [n |-> i, of |-> payload] \notin tasks
        /\ \A j \in 1..(i - 1) : [n |-> j, of |-> payload] \in tasks

\* The values a crop session must not leak into.
Snapshot == [on |-> TRUE, file |-> fileField, del |-> deleteChecked,
             drop |-> dropHidden, existing |-> existingHidden,
             preview |-> previewHidden, replaced |-> 0]

NoSnapshot == [on |-> FALSE, file |-> <<>>, del |-> FALSE, drop |-> FALSE,
               existing |-> FALSE, preview |-> FALSE, replaced |-> 0]

-----------------------------------------------------------------------------
(* History.  scenario: progress through Existing, delete, select a valid   *)
(* image, its decode, crop confirm, encode, decode; any other step leaves  *)
(* the scenario; phase 7 is the scenario followed by clicks on the crop    *)
(* buttons with no session open.  selBefore: the Snapshot taken when a     *)
(* candidate was accepted, kept while nothing but the decode of that       *)
(* candidate happens; its field `replaced` is the session that was open    *)
(* when that decode opened the candidate's session (0: none).              *)

ScenarioOff == 0 - 1

ScenarioStep(phase, ev) ==
    CASE phase = 0 /\ ev = "delete"       -> 1
      [] phase = 1 /\ ev = "openPicker"   -> 1
      [] phase = 1 /\ ev = "selectValid"  -> 2
      [] phase = 2 /\ ev = "fileRead"     -> 3
      [] phase = 3 /\ ev = "confirm"      -> 4
      [] phase = 4 /\ ev = "encoded"      -> 5
      [] phase = 5 /\ ev = "blobRead"     -> 6
      [] phase \in {6, 7} /\ ev \in {"confirmNoSession", "cancelNoSession"} -> 7
      [] OTHER                            -> ScenarioOff

Track(ev) ==
    /\ scenario' = ScenarioStep(scenario, ev)
    /\ selBefore' = CASE ev = "selectValid" -> Snapshot
                      [] ev = "fileRead"    ->
                           [selBefore EXCEPT
                              !.replaced = IF cropHook THEN cropper ELSE 0]
                      [] OTHER              -> NoSnapshot

-----------------------------------------------------------------------------
(* The crop handler's functions (they alone write modalHidden, cropper,    *)
(* live and cropImageSrc).  A new Cropper takes the number of the          *)
(* selection whose decode opened it as its id.                             *)

\* Mutant of initCropper: the old instance is not destroyed.
initCropper_NoDestroy(imageSrc, id) ==
    /\ cropImageSrc' = imageSrc
    /\ live' = live \cup {id}
    /\ cropper' = id

initCropper(imageSrc, id) ==
    /\ cropImageSrc' = imageSrc
    /\ live' = Destroy(live, cropper) \cup {id}
    /\ cropper' = id

showCropModal(imageSrc, id) ==
    /\ modalHidden' = FALSE
    /\ initCropper(imageSrc, id)

\* Mutant of hideCropModal: the reference is not reset.
hideCropModal_KeepRef ==
    /\ modalHidden' = TRUE
    /\ live' = Destroy(live, cropper)
    /\ UNCHANGED <<cropper, cropImageSrc>>

hideCropModal ==
    /\ modalHidden' = TRUE
    /\ live' = Destroy(live, cropper)
    /\ cropper' = 0
    /\ UNCHANGED cropImageSrc

-----------------------------------------------------------------------------
(* The upload handler's functions *)

\* showPreview(file): starts the read; its onload is FileReadLoad below.
showPreview(file) ==
    fileReads' = fileReads \cup {[n |-> nSelect + 1, file |-> file]}

\* handleFileSelect(file).  `files` is fileInput.files when the handler is
\* entered: the browser has already put a picked file there, not a dropped one.
handleFileSelect(file, files) ==
    LET error == validateFile(file) IN
    IF error # null
    THEN /\ notice' = error
         /\ fileField' = files
         /\ UNCHANGED fileReads
         /\ Track("selectRejected")
    ELSE /\ notice' = null
         /\ fileField' = <<file>>
         /\ showPreview(file)
         /\ Track("selectValid")

\* Mutant of deleteClick: the live preview is not hidden.
deleteClick_KeepPreview ==
    /\ deleteChecked' = TRUE
    /\ existingHidden' = TRUE
    /\ dropHidden' = FALSE
    /\ fileField' = <<>>
    /\ UNCHANGED previewHidden

\* The body shared by the two delete buttons' click handlers.
deleteClick ==
    /\ deleteChecked' = TRUE
    /\ previewHidden' = TRUE
    /\ existingHidden' = TRUE
    /\ dropHidden' = FALSE
    /\ fileField' = <<>>

\* Mutant of commitPreview: the delete flag is not cleared.
commitPreview_KeepFlag(imageSrc) ==
    /\ previewSrc' = imageSrc
    /\ previewHidden' = FALSE
    /\ existingHidden' = TRUE
    /\ dropHidden' = TRUE
    /\ UNCHANGED deleteChecked

\* The assignments shared by showPreview's fallback branch and by the onload
\* of handleCropConfirm's reader.
commitPreview(imageSrc) ==
    /\ previewSrc' = imageSrc
    /\ previewHidden' = FALSE
    /\ existingHidden' = TRUE
    /\ dropHidden' = TRUE
    /\ deleteChecked' = FALSE

cropVars == <<modalHidden, cropper, live, cropImageSrc>>
asyncVars == <<fileReads, encodes, blobReads>>

\* The identity-verification page is not the page loaded.
VerifyIdle ==
    /\ stripe = FALSE
    /\ btnDisabled = FALSE
    /\ flows = {}
    /\ toast = NoToast
    /\ nClicks = 0

\* The profile links formset is not on the page loaded.
LinksIdle ==
    /\ totalForms = <<0>>
    /\ rows = <<>>
    /\ initialForms = 0
    /\ nAdds = 0

-----------------------------------------------------------------------------
(* Initial state: the page as rendered, after both DOMContentLoaded        *)
(* listeners ran.  The profile has an image (Existing) or not (Empty); the *)
(* crop handler registered its hook, or its elements are missing.          *)

Init ==
    /\ fileField = <<>>
    /\ deleteChecked = FALSE
    /\ previewSrc = NoSrc
    /\ \E hasExisting \in BOOLEAN :
         /\ dropHidden = hasExisting
         /\ existingHidden = ~hasExisting
         /\ uploadState = IF hasExisting THEN "Existing" ELSE "Empty"
         /\ scenario = IF hasExisting THEN 0 ELSE ScenarioOff
    /\ previewHidden = TRUE
    /\ highlighted = FALSE
    /\ dragDefaults = {}
    /\ modalHidden = TRUE
    /\ cropper = 0
    /\ live = {}
    /\ selBefore = NoSnapshot
    /\ cropImageSrc = NoSrc
    /\ cropHook \in BOOLEAN
    /\ pickerOpen = FALSE
    /\ fileReads = {}
    /\ encodes = {}
    /\ blobReads = {}
    /\ notice = null
    /\ nSelect = 0
    /\ VerifyIdle
    /\ LinksIdle

-----------------------------------------------------------------------------
(* Upload handler: events *)

\* fileInput "change": the user picked `file` in the open picker.
PickerChange(file) ==
    /\ pickerOpen
    /\ nSelect < MaxSelections
    /\ pickerOpen' = FALSE
    /\ nSelect' = nSelect + 1
    /\ handleFileSelect(file, <<file>>)
    /\ UNCHANGED <<deleteChecked, previewSrc, dropHidden, existingHidden,
                   previewHidden, dragVars, cropVars, cropHook, encodes,
                   blobReads, uploadState>>
    /\ UNCHANGED otherPages

\* The user closed the picker without picking: no change event.
PickerCancel ==
    /\ pickerOpen
    /\ pickerOpen' = FALSE
    /\ notice' = null
    /\ Track("pickerCancel")
    /\ UNCHANGED <<uploadVars, dragVars, cropVars, cropHook, asyncVars,
                   nSelect, uploadState>>
    /\ UNCHANGED otherPages

openPicker ==
    /\ ~pickerOpen
    /\ pickerOpen' = TRUE
    /\ notice' = null
    /\ Track("openPicker")
    /\ UNCHANGED <<uploadVars, dragVars, cropVars, cropHook, asyncVars,
                   nSelect, uploadState>>
    /\ UNCHANGED otherPages

DropZoneClick == openPicker

ReplaceBtnClick == openPicker

ReplaceBtn2Click == openPicker

\* Mutant of preventDefaults: the listener is not registered for the event,
\* so the browser runs its default action.
preventDefaults_Missing(e) == dragDefaults' = dragDefaults \cup {e}

\* preventDefaults, registered for each of the four drag events: the browser
\* does not run the default action of the event.
preventDefaults(e) == dragDefaults' = dragDefaults

highlight == highlighted' = TRUE

unhighlight == highlighted' = FALSE

dragOnly ==
    /\ ~pickerOpen
    /\ notice' = null
    /\ Track("drag")
    /\ UNCHANGED <<uploadVars, cropVars, cropHook, pickerOpen, asyncVars,
                   nSelect, uploadState>>
    /\ UNCHANGED otherPages

DragEnter == preventDefaults("dragenter") /\ highlight /\ dragOnly

DragOver == preventDefaults("dragover") /\ highlight /\ dragOnly

DragLeave == preventDefaults("dragleave") /\ unhighlight /\ dragOnly

\* dropZone "drop" with dt.files[0] = file.
Drop(file) ==
    /\ ~pickerOpen
    /\ nSelect < MaxSelections
    /\ preventDefaults("drop")
    /\ unhighlight
    /\ nSelect' = nSelect + 1
    /\ handleFileSelect(file, fileField)
    /\ UNCHANGED <<deleteChecked, previewSrc, dropHidden, existingHidden,
                   previewHidden, cropVars, cropHook, pickerOpen, encodes,
                   blobReads, uploadState>>
    /\ UNCHANGED otherPages

\* dropZone "drop" of a payload without files.
DropNoFile == preventDefaults("drop") /\ unhighlight /\ dragOnly

DeleteBtnClick ==
    /\ ~pickerOpen
    /\ deleteClick
    /\ notice' = null
    /\ uploadState' = "Deleted"
    /\ Track("delete")
    /\ UNCHANGED <<previewSrc, dragVars, cropVars, cropHook, pickerOpen,
                   asyncVars, nSelect>>
    /\ UNCHANGED otherPages

DeleteBtn2Click ==
    /\ ~pickerOpen
    /\ deleteClick
    /\ notice' = null
    /\ uploadState' = "Deleted"
    /\ Track("delete")
    /\ UNCHANGED <<previewSrc, dragVars, cropVars, cropHook, pickerOpen,
                   asyncVars, nSelect>>
    /\ UNCHANGED otherPages

\* reader.onload of showPreview.
FileReadLoad(t) ==
    /\ t \in fileReads
    /\ fileReads' = fileReads \ {t}
    /\ notice' = null
    /\ Track(IF t.n = nSelect THEN "fileRead" ELSE "fileReadOld")
    /\ IF cropHook
       THEN /\ showCropModal(DataURL(t.file), t.n)
            /\ UNCHANGED <<previewSrc, previewHidden, existingHidden,
                           dropHidden, deleteChecked, uploadState>>
       ELSE /\ commitPreview(DataURL(t.file))
            /\ uploadState' = "Pending"
            /\ UNCHANGED cropVars
    /\ UNCHANGED <<fileField, dragVars, cropHook, pickerOpen, encodes,
                   blobReads, nSelect>>
    /\ UNCHANGED otherPages

\* The read fails (the file became unreadable): onload never runs.
FileReadError(t) ==
    /\ t \in fileReads
    /\ fileReads' = fileReads \ {t}
    /\ notice' = null
    /\ Track("fileReadError")
    /\ UNCHANGED <<uploadVars, dragVars, cropVars, cropHook, pickerOpen,
                   encodes, blobReads, nSelect, uploadState>>
    /\ UNCHANGED otherPages

-----------------------------------------------------------------------------
(* Crop handler: events *)

\* Mutant of Canvas: getCroppedCanvas() without the size options yields the
\* crop box at its natural size, here the largest square of the source image.
Canvas_NaturalSize ==
    LET w == cropImageSrc.data.width
        h == cropImageSrc.data.height
        side == IF w < h THEN w ELSE h
    IN [session |-> cropper, src |-> cropImageSrc,
        width |-> side, height |-> side]

\* cropper.getCroppedCanvas({width: 2048, height: 2048, ...}): the canvas
\* drawn from the open session.
Canvas ==
    LET size == AdjustedSizes(AspectRatio, CanvasWidth, CanvasHeight)
    IN [session |-> cropper, src |-> cropImageSrc,
        width |-> size.width, height |-> size.height]

\* The blob that the toBlob call `t` yields.
Blob(t) == CroppedBlob(t.of)

\* Mutant of CropConfirmClick: without the `if (!cropper) return` guard the
\* rejection of getCroppedImage reaches the catch block.
CropConfirmClick_NoGuard ==
    /\ ~pickerOpen
    /\ IF cropper = 0
       THEN /\ notice' = CropFailedMsg
            /\ Track("confirmNoSession")
            /\ UNCHANGED encodes
       ELSE /\ notice' = null
            /\ Cardinality(encodes) < MaxPendingEncodes
            /\ encodes' = encodes \cup
                 {[n |-> FreshId(encodes, Canvas),
                   of |-> Canvas]}
            /\ Track("confirm")
    /\ UNCHANGED <<uploadVars, dragVars, cropVars, cropHook, pickerOpen,
                   fileReads, blobReads, nSelect, uploadState>>
    /\ UNCHANGED otherPages

\* cropConfirmBtn "click": handleCropConfirm up to its await.
CropConfirmClick ==
    /\ ~pickerOpen
    /\ notice' = null
    /\ IF cropper = 0
       THEN /\ Track("confirmNoSession")
            /\ UNCHANGED encodes
       ELSE /\ Cardinality(encodes) < MaxPendingEncodes
            /\ encodes' = encodes \cup
                 {[n |-> FreshId(encodes, Canvas),
                   of |-> Canvas]}
            /\ Track("confirm")
    /\ UNCHANGED <<uploadVars, dragVars, cropVars, cropHook, pickerOpen,
                   fileReads, blobReads, nSelect, uploadState>>
    /\ UNCHANGED otherPages

\* Mutant of EncodeResolve: the modal is not hidden after the commit.
EncodeResolve_NoHide(t) ==
    /\ t \in encodes
    /\ encodes' = encodes \ {t}
    /\ fileField' = <<CropFile(Blob(t))>>
    /\ blobReads' = blobReads \cup {[n |-> FreshId(blobReads, Blob(t)),
                                  of |-> Blob(t)]}
    /\ notice' = null
    /\ Track("encoded")
    /\ UNCHANGED <<deleteChecked, previewSrc, dropHidden, existingHidden,
                   previewHidden, dragVars, cropVars, cropHook, pickerOpen,
                   fileReads, nSelect, uploadState>>
    /\ UNCHANGED otherPages

\* toBlob calls back with a blob: handleCropConfirm after its await.
EncodeResolve(t) ==
    /\ t \in encodes
    /\ encodes' = encodes \ {t}
    /\ fileField' = <<CropFile(Blob(t))>>
    /\ blobReads' = blobReads \cup {[n |-> FreshId(blobReads, Blob(t)),
                                  of |-> Blob(t)]}
    /\ hideCropModal
    /\ notice' = null
    /\ Track("encoded")
    /\ UNCHANGED <<deleteChecked, previewSrc, dropHidden, existingHidden,
                   previewHidden, dragVars, cropHook, pickerOpen,
                   fileReads, nSelect, uploadState>>
    /\ UNCHANGED otherPages

\* Mutant of EncodeFail: the catch block also closes the modal.
EncodeFail_Hide(t) ==
    /\ t \in encodes
    /\ encodes' = encodes \ {t}
    /\ notice' = CropFailedMsg
    /\ hideCropModal
    /\ Track("encodeFailed")
    /\ UNCHANGED <<uploadVars, dragVars, cropHook, pickerOpen,
                   fileReads, blobReads, nSelect, uploadState>>
    /\ UNCHANGED otherPages

\* toBlob calls back with null: the promise rejects, the catch block alerts.
EncodeFail(t) ==
    /\ t \in encodes
    /\ encodes' = encodes \ {t}
    /\ notice' = CropFailedMsg
    /\ Track("encodeFailed")
    /\ UNCHANGED <<uploadVars, dragVars, cropVars, cropHook, pickerOpen,
                   fileReads, blobReads, nSelect, uploadState>>
    /\ UNCHANGED otherPages

\* reader.onload of handleCropConfirm.
BlobReadLoad(t) ==
    /\ t \in blobReads
    /\ blobReads' = blobReads \ {t}
    /\ commitPreview(DataURL(t.of))
    /\ uploadState' = "Pending"
    /\ notice' = null
    /\ Track("blobRead")
    /\ UNCHANGED <<fileField, dragVars, cropVars, cropHook, pickerOpen,
                   fileReads, encodes, nSelect>>
    /\ UNCHANGED otherPages

cancelCrop ==
    /\ ~pickerOpen
    /\ hideCropModal
    /\ notice' = null
    /\ Track(IF cropper = 0 THEN "cancelNoSession" ELSE "cancel")
    /\ UNCHANGED <<uploadVars, dragVars, cropHook, pickerOpen, asyncVars,
                   nSelect, uploadState>>
    /\ UNCHANGED otherPages

CropCancelClick == cancelCrop

\* cropModal "click" with e.target === cropModal.
BackdropClick == cancelCrop

-----------------------------------------------------------------------------

Next ==
    \/ \E file \in Candidates : PickerChange(file)
    \/ PickerCancel
    \/ DropZoneClick
    \/ ReplaceBtnClick
    \/ ReplaceBtn2Click
    \/ DragEnter
    \/ DragOver
    \/ DragLeave
    \/ \E file \in Candidates : Drop(file)
    \/ DropNoFile
    \/ DeleteBtnClick
    \/ DeleteBtn2Click
    \/ \E t \in fileReads : FileReadLoad(t)
    \/ \E t \in fileReads : FileReadError(t)
    \/ CropConfirmClick
    \/ \E t \in encodes : EncodeResolve(t)
    \/ \E t \in encodes : EncodeFail(t)
    \/ \E t \in blobReads : BlobReadLoad(t)
    \/ CropCancelClick
    \/ BackdropClick

Spec == Init /\ [][Next]_vars

\* The user's gestures and the resolutions of the asynchronous operations.
Gesture ==
    \/ \E file \in Candidates : PickerChange(file)
    \/ PickerCancel
    \/ DropZoneClick
    \/ ReplaceBtnClick
    \/ ReplaceBtn2Click
    \/ DragEnter
    \/ DragOver
    \/ DragLeave
    \/ \E file \in Candidates : Drop(file)
    \/ DropNoFile
    \/ DeleteBtnClick
    \/ DeleteBtn2Click
    \/ CropConfirmClick
    \/ CropCancelClick
    \/ BackdropClick

FileReadDone == \E t \in fileReads : FileReadLoad(t) \/ FileReadError(t)

EncodeDone == \E t \in encodes : EncodeResolve(t) \/ EncodeFail(t)

BlobReadDone == \E t \in blobReads : BlobReadLoad(t)

\* A confirmed crop is on its way: its encode or its decode is not resolved.
Busy == encodes # {} \/ blobReads # {}

\* The program with a user who makes no gesture while a confirmed crop is on
\* its way.  The browser runs every callback whose operation has finished,
\* and a read or an encode of data in memory finishes.
NextQuiet ==
    \/ ~Busy /\ Gesture
    \/ FileReadDone
    \/ EncodeDone
    \/ BlobReadDone

SpecQuiet ==
    /\ Init
    /\ [][NextQuiet]_vars
    /\ WF_vars(FileReadDone)
    /\ WF_vars(EncodeDone)
    /\ WF_vars(BlobReadDone)

-----------------------------------------------------------------------------
(* Identity verification: stripe_identity_verification.ts.  A run of      *)
(* startVerificationFlow is a record in `flows` while it waits at one of   *)
(* its three awaits (`at`); a promise that rejects throws out of the       *)
(* function, which has no try block.                                       *)

\* The state of the profile image form.
profileVars == <<uploadVars, dragVars, cropVars, asyncVars, selBefore, cropHook,
                 pickerOpen, notice, nSelect, uploadState, scenario>>

\* The profile image form is not on the page loaded.
ProfileIdle ==
    /\ fileField = <<>>
    /\ deleteChecked = FALSE
    /\ previewSrc = NoSrc
    /\ dropHidden = FALSE
    /\ existingHidden = TRUE
    /\ previewHidden = TRUE
    /\ highlighted = FALSE
    /\ dragDefaults = {}
    /\ modalHidden = TRUE
    /\ cropper = 0
    /\ live = {}
    /\ selBefore = NoSnapshot
    /\ cropImageSrc = NoSrc
    /\ cropHook = FALSE
    /\ pickerOpen = FALSE
    /\ fileReads = {}
    /\ encodes = {}
    /\ blobReads = {}
    /\ notice = null
    /\ nSelect = 0
    /\ uploadState = "Empty"
    /\ scenario = ScenarioOff

\* A JSON value: [type, value]; an object has the one key we look at.
Absent == [type |-> "undefined", value |-> ""]

JsonString(v) == [type |-> "string", value |-> v]

JsonNumber(v) == [type |-> "number", value |-> v]

\* The bodies the session endpoint may answer with.
Payloads ==
    { [type |-> "object", client_secret |-> JsonString("vs_secret")],
      [type |-> "object", client_secret |-> JsonString("")],
      [type |-> "object", client_secret |-> JsonNumber("7")],
      [type |-> "object", client_secret |-> Absent],
      [type |-> "null",   client_secret |-> Absent] }

\* StripeVerificationResponse.safeParse(data).success
\* (z.object({client_secret: z.string().min(1)})).
safeParseSuccess(data) ==
    /\ data.type = "object"
    /\ data.client_secret.type = "string"
    /\ data.client_secret.value # ""

\* The `error` of stripe.verifyIdentity's result: none, or one with or
\* without a message.
VerifyErrors == {null, "Consent declined", "undefined"}

Toast(message, tags) == [message |-> message, tags |-> tags]

disableButton == btnDisabled' = TRUE

enableButton == btnDisabled' = FALSE

Flow(at) == [n |-> nClicks + 1, at |-> at]

\* startButton "click": startVerificationFlow up to its first await or
\* return.  A disabled button gets no click event.
StartClick ==
    /\ ~btnDisabled
    /\ nClicks < MaxClicks
    /\ nClicks' = nClicks + 1
    /\ IF ~stripe
       THEN /\ enableButton
            /\ UNCHANGED flows
       ELSE /\ disableButton
            /\ flows' = flows \cup {Flow("fetch")}
    /\ UNCHANGED <<stripe, toast, profileVars, linksVars>>

\* A run leaves `flows` when the function returns or throws.
Ends(f) == flows' = flows \ {f}

Moves(f, at) == flows' = (flows \ {f}) \cup {[f EXCEPT !.at = at]}

\* fetch resolves with a response; `ok` is response.ok.
FetchResolve(f, ok) ==
    /\ f \in flows /\ f.at = "fetch"
    /\ IF ~ok
       THEN /\ toast' = Toast("Failed to start verification", "error")
            /\ enableButton
            /\ Ends(f)
       ELSE /\ Moves(f, "json")
            /\ UNCHANGED <<toast, btnDisabled>>
    /\ UNCHANGED <<stripe, nClicks, profileVars, linksVars>>

\* fetch rejects (the network fails): the await throws.
FetchReject(f) ==
    /\ f \in flows /\ f.at = "fetch"
    /\ Ends(f)
    /\ UNCHANGED <<stripe, btnDisabled, toast, nClicks, profileVars, linksVars>>

\* response.json() resolves with `data`.
JsonResolve(f, data) ==
    /\ f \in flows /\ f.at = "json"
    /\ IF ~safeParseSuccess(data)
       THEN /\ toast' = Toast("Invalid data received", "error")
            /\ enableButton
            /\ Ends(f)
       ELSE /\ Moves(f, "verify")
            /\ UNCHANGED <<toast, btnDisabled>>
    /\ UNCHANGED <<stripe, nClicks, profileVars, linksVars>>

\* response.json() rejects (the body is not JSON): the await throws.
JsonReject(f) ==
    /\ f \in flows /\ f.at = "json"
    /\ Ends(f)
    /\ UNCHANGED <<stripe, btnDisabled, toast, nClicks, profileVars, linksVars>>

\* stripe.verifyIdentity resolves with {error}.
VerifyResolve(f, error) ==
    /\ f \in flows /\ f.at = "verify"
    /\ Ends(f)
    /\ IF error # null
       THEN /\ toast' = Toast(IF error = "undefined"
                               THEN "Something went wrong" ELSE error, "error")
            /\ enableButton
       ELSE /\ toast' = Toast("Your identity is being processed", "info")
            /\ UNCHANGED btnDisabled
    /\ UNCHANGED <<stripe, nClicks, profileVars, linksVars>>

\* The identity page as loaded: loadStripe gave an instance or null.
InitVerify ==
    /\ ProfileIdle
    /\ LinksIdle
    /\ stripe \in BOOLEAN
    /\ btnDisabled = FALSE
    /\ flows = {}
    /\ toast = NoToast
    /\ nClicks = 0

NextVerify ==
    \/ StartClick
    \/ \E f \in flows, ok \in BOOLEAN : FetchResolve(f, ok)
    \/ \E f \in flows : FetchReject(f)
    \/ \E f \in flows, data \in Payloads : JsonResolve(f, data)
    \/ \E f \in flows : JsonReject(f)
    \/ \E f \in flows, error \in VerifyErrors : VerifyResolve(f, error)

SpecVerify == InitVerify /\ [][NextVerify]_vars
-----------------------------------------------------------------------------
(* Profile links formset: profile_links.ts.  A string of decimal digits is *)
(* the sequence of its digits; a row is the index its field names carry,   *)
(* its DELETE checkbox and its "hidden" class.                             *)

RECURSIVE parseInt(_)
\* parseInt(value, 10) of a string of decimal digits.
parseInt(str) ==
    IF Len(str) = 0 THEN 0
    ELSE parseInt(SubSeq(str, 1, Len(str) - 1)) * 10 + str[Len(str)]

\* Mutant of Stringify: only the last digit is written.
Stringify_LastDigit(n) == <<n % 10>>

RECURSIVE Stringify(_)
\* `${n}` of a non-negative integer.
Stringify(n) ==
    IF n < 10 THEN <<n>> ELSE Append(Stringify(n \div 10), n % 10)

\* The row Django rendered, or the template yields, for index string `index`.
Row(index, added) ==
    [index |-> index, delete |-> FALSE, hidden |-> FALSE, added |-> added]

\* The numbers of forms the page may be rendered with.
RenderedTotals == {0, 2, 9}

\* The formset as rendered: forms 0 .. TOTAL_FORMS - 1.
InitLinks ==
    /\ ProfileIdle
    /\ VerifyIdle
    /\ \E total \in RenderedTotals :
          /\ totalForms = Stringify(total)
          /\ rows = [i \in 1..total |-> Row(Stringify(i - 1), FALSE)]
          /\ initialForms = total
    /\ nAdds = 0

\* addBtn "click".
AddClick ==
    /\ nAdds < MaxAdds
    /\ nAdds' = nAdds + 1
    /\ LET currentTotal == parseInt(totalForms) IN
         /\ rows' = Append(rows, Row(Stringify(currentTotal), TRUE))
         /\ totalForms' = Stringify(currentTotal + 1)
    /\ UNCHANGED <<initialForms, profileVars, verifyVars>>

\* removeBtn "click" on the row at position i of the container.
RemoveClick(i) ==
    /\ i \in 1..Len(rows)
    /\ rows' = [rows EXCEPT ![i].delete = TRUE, ![i].hidden = TRUE]
    /\ UNCHANGED <<totalForms, initialForms, nAdds, profileVars, verifyVars>>

NextLinks ==
    \/ AddClick
    \/ \E i \in 1..Len(rows) : RemoveClick(i)

SpecLinks == InitLinks /\ [][NextLinks]_vars

-----------------------------------------------------------------------------
(* Properties *)

Visible(hidden) == ~hidden

FieldEmpty == fileField = <<>>

\* The file field holds exactly the output of a crop.
FieldHoldsCrop ==
    /\ Len(fileField) = 1
    /\ fileField[1].name = "profile-image.webp"
    /\ fileField[1].type = "image/webp"
    /\ fileField[1].data.kind = "crop"

CancelStep == CropCancelClick \/ BackdropClick

\* C1: the delete-intent flag and a non-empty file field are never both true,
\* in every state reachable by select, replace, delete, confirm, cancel and the
\* asynchronous resolutions.
C1_DeleteFlagExcludesFile == ~(deleteChecked /\ ~FieldEmpty)

\* C2: when the encode of a session that was cancelled after its confirm
\* resolves successfully, the file field, the delete flag, the preview source
\* and the visibility of the three non-modal regions are left as they were.
C2_StaleEncodeDiscarded ==
    [][\A t \in encodes :
          (EncodeResolve(t) /\ t.of.session # cropper)
             => UNCHANGED uploadVars]_vars

\* C3: cancelling the session opened for an accepted candidate leaves the file
\* field, the delete flag and the visibility of the regions as they were before
\* that candidate was selected.
C3_CancelLeaksNothing ==
    [][(CancelStep /\ selBefore.on /\ cropper # 0 /\ cropper = nSelect)
          => /\ fileField' = selBefore.file
             /\ deleteChecked' = selBefore.del
             /\ dropHidden' = selBefore.drop
             /\ existingHidden' = selBefore.existing
             /\ previewHidden' = selBefore.preview]_vars

\* C4: at most one Cropper instance is constructed and not destroyed, and it is
\* the one `cropper` refers to: no instance is alive and unreferenced.
C4_AtMostOneSession ==
    /\ Cardinality(live) <= 1
    /\ live = (IF cropper = 0 THEN {} ELSE {cropper})

\* C4 witness: a session was opened while another one was open.
C4_Witness ==
    /\ selBefore.on
    /\ selBefore.replaced # 0
    /\ cropper = nSelect
    /\ cropper # selBefore.replaced
    /\ live = {cropper}

\* C5: whenever the file field is not empty it holds exactly one file, the
\* crop output named profile-image.webp of type image/webp, never a raw
\* user-picked file.
C5_FieldHoldsOnlyCropOutput == ~FieldEmpty => FieldHoldsCrop

\* C6: a candidate that validate rejects, arriving by picker change or by drop,
\* leaves the file field, the delete flag, the preview source, the visibility
\* of the four regions and the crop session as they were.
C6_RejectionMutatesNothing ==
    [][\A file \in Candidates :
          (validateFile(file) # null /\ (PickerChange(file) \/ Drop(file)))
             => UNCHANGED <<uploadVars, cropVars>>]_vars

\* C7: validate applies its rules in order, first failure winning: a type
\* outside the allow-list gives the unsupported-format message whatever the
\* size, else a size above 5 MiB gives the size-ceiling message, else the
\* candidate is accepted (exactly 5 MiB included); a reason is raised iff the
\* candidate is rejected (no read of it is started).
C7_ValidateRulesInOrder ==
    [][\A file \in Candidates :
          (PickerChange(file) \/ Drop(file)) =>
             /\ file.type \notin ALLOWED_TYPES => notice' = UnsupportedMsg
             /\ (file.type \in ALLOWED_TYPES /\ file.size > 5 * 1024 * 1024)
                   => notice' = TooLargeMsg
             /\ (file.type \in ALLOWED_TYPES /\ file.size <= 5 * 1024 * 1024)
                   => notice' = null
             /\ (notice' # null) <=> (fileReads' = fileReads)
             /\ (notice' = null) <=> (\E t \in fileReads' \ fileReads :
                                          t.file = file)]_vars

\* C7 witness: the last step accepted a candidate of exactly 5 MiB, whose read
\* is in flight.
C7_Witness ==
    /\ selBefore.on
    /\ notice = null
    /\ \E t \in fileReads : t.n = nSelect /\ t.file.size = MAX_FILE_SIZE

\* C8: from Existing, a delete click gives drop zone visible, the other two
\* regions hidden, delete flag true, file field empty; then selecting a valid
\* image, its decode, crop confirm, encode and decode give live preview
\* visible, drop zone and existing view hidden, delete flag false, modal
\* closed and the file field holding the one file profile-image.webp of type
\* image/webp.
C8_EndToEndScenario ==
    /\ scenario = 1 =>
          /\ Visible(dropHidden) /\ ~Visible(existingHidden)
          /\ ~Visible(previewHidden)
          /\ deleteChecked /\ FieldEmpty
    /\ scenario = 6 =>
          /\ Visible(previewHidden) /\ ~Visible(dropHidden)
          /\ ~Visible(existingHidden)
          /\ ~deleteChecked
          /\ modalHidden /\ cropper = 0
          /\ FieldHoldsCrop

\* C8 witness: the scenario ran to its end.
C8_Witness == scenario = 6 /\ previewSrc.scheme = "data"

\* C9: exactly one of drop zone, existing-image view and live preview is
\* visible, the drop zone iff the upload state is Empty or Deleted, the
\* existing-image view iff Existing, the live preview iff Pending.  The upload
\* state is the one the last completed transition gave: Existing or Empty at
\* load, Deleted at a delete click, Pending when a commit's decode resolves.
C9_RegionsFollowUploadState ==
    /\ Cardinality({r \in {"drop", "existing", "preview"} :
          \/ r = "drop" /\ Visible(dropHidden)
          \/ r = "existing" /\ Visible(existingHidden)
          \/ r = "preview" /\ Visible(previewHidden)}) = 1
    /\ Visible(dropHidden) <=> uploadState \in {"Empty", "Deleted"}
    /\ Visible(existingHidden) <=> uploadState = "Existing"
    /\ Visible(previewHidden) <=> uploadState = "Pending"

\* C9 witness: a commit was deleted again, so every region has changed.
C9_Witness ==
    /\ uploadState = "Deleted"
    /\ previewSrc.scheme = "data"
    /\ Visible(dropHidden)

\* C10: the crop modal lacks the hidden class iff the cropper reference is
\* non-null, whatever the other regions show.
C10_ModalVisibleIffSessionOpen == Visible(modalHidden) <=> cropper # 0

\* C10 witness: the session of the second selection is open, the modal shown.
C10_Witness == Visible(modalHidden) /\ cropper = 2 /\ live = {2}

\* C11: after every completed confirm, whether its encode succeeded or
\* failed, the cropper reference is null.
C11_ConfirmAlwaysDestroys ==
    [][\A t \in encodes :
          (EncodeResolve(t) \/ EncodeFail(t)) => cropper' = 0]_vars

\* C11, amended: after a confirm whose encode succeeded the cropper reference
\* is null and no instance is alive; a failed encode leaves the session, the
\* modal and the instances as they were.
C11_ConfirmDestroysOnSuccess ==
    [][\A t \in encodes :
          /\ EncodeResolve(t) => (cropper' = 0 /\ live' = {} /\ modalHidden')
          /\ EncodeFail(t) => UNCHANGED cropVars]_vars

\* C11 witness: the encode of the scenario's confirm has just succeeded.
C11_Witness == scenario = 5 /\ cropper = 0 /\ blobReads # {}

\* C12: an encode failure leaves the file field, the delete flag, the preview
\* source and the three regions as the confirm found them (the confirm click
\* changes none of them either), writes no file, raises the notice, and leaves
\* the modal visible with the same session open.
C12_EncodeFailurePreservesState ==
    [][/\ CropConfirmClick => UNCHANGED <<uploadVars, cropVars>>
       /\ \A t \in encodes :
             EncodeFail(t) =>
                /\ UNCHANGED <<uploadVars, cropVars, blobReads>>
                /\ notice' = CropFailedMsg
                /\ t.of.session = cropper =>
                      (Visible(modalHidden') /\ cropper' = t.of.session
                       /\ cropper' \in live')]_vars

\* C12 witness: the encode has just failed and the session is still open.
C12_Witness ==
    /\ notice = CropFailedMsg
    /\ cropper # 0
    /\ Visible(modalHidden)
    /\ encodes = {}

\* C13: between a crop confirm and the resolution of the decode of its blob,
\* the file field, the delete flag, the preview source and the visibility of
\* the three regions do not change: neither the confirm click nor the
\* resolution of the encode changes any of them.
C13_CommitOnlyWhenDecodeResolves ==
    [][/\ CropConfirmClick => UNCHANGED uploadVars
       /\ \A t \in encodes :
             (EncodeResolve(t) \/ EncodeFail(t)) => UNCHANGED uploadVars]_vars

DeleteStep == DeleteBtnClick \/ DeleteBtn2Click

DeletedState ==
    /\ FieldEmpty
    /\ deleteChecked
    /\ Visible(dropHidden)
    /\ ~Visible(existingHidden)
    /\ ~Visible(previewHidden)

\* C14: after a completed crop commit (the decode of its blob resolved) the
\* delete flag is false and the file field holds the crop file of that commit;
\* after a click on either delete button the file field is empty, the flag
\* true, the drop zone visible and the other two regions hidden; a delete
\* click in the state a delete click left changes nothing.
C14_CommitAndDeleteFixedEffects ==
    [][/\ DeleteStep => DeletedState'
       /\ (DeleteStep /\ DeletedState) => UNCHANGED uploadVars
       /\ \A t \in blobReads :
             BlobReadLoad(t) =>
                (~deleteChecked' /\ fileField' = <<CropFile(t.of)>>)]_vars

RejectedPick ==
    \E file \in Candidates : validateFile(file) # null /\ PickerChange(file)

\* C16: a click on either replace button, and after it a pick of nothing or a
\* pick of a candidate that validation rejects, leaves the file field, the
\* delete flag, the preview source, the region visibility and the crop
\* session unchanged.
C16_ReplaceKeepsCommittedState ==
    [][(ReplaceBtnClick \/ ReplaceBtn2Click \/ PickerCancel \/ RejectedPick)
          => UNCHANGED <<uploadVars, cropVars>>]_vars

\* C15: with the cropper reference null, a confirm click, a cancel click or a
\* backdrop click changes neither the file field, the delete flag, the region
\* visibility, the modal visibility nor the session, starts no encode and
\* raises no notice; every cancel leaves the reference null, so a second
\* cancel in a row is such a click.
C15_NoSessionClickIsNoOp ==
    [][/\ (cropper = 0 /\ (CropConfirmClick \/ CancelStep)) =>
             (UNCHANGED <<uploadVars, cropVars, asyncVars>> /\ notice' = null)
       /\ CancelStep => (cropper' = 0 /\ live' = Destroy(live, cropper))]_vars

C15_Witness == scenario = 7 /\ cropper = 0 /\ FieldHoldsCrop

\* C17: every file a confirmed crop produces is named profile-image.webp, has
\* type image/webp and comes from a 2048x2048 canvas encoded at quality 0.95,
\* whatever the size of the source image; a canvas is taken only at a confirm
\* click while the cropper reference is not null and its session is live.
C17_CropOutputNormalized ==
    [][/\ \A t \in encodes' \ encodes :
             /\ cropper # 0 /\ cropper \in live /\ t.of.session = cropper
             /\ t.of.width = 2048 /\ t.of.height = 2048
       /\ \A t \in encodes :
             EncodeResolve(t) =>
                /\ Len(fileField') = 1
                /\ fileField'[1].name = "profile-image.webp"
                /\ fileField'[1].type = "image/webp"
                /\ fileField'[1].data.kind = "crop"
                /\ fileField'[1].data.width = 2048
                /\ fileField'[1].data.height = 2048
                /\ fileField'[1].data.quality = 95
                /\ \E b \in blobReads' \ blobReads :
                      b.of.type = "image/webp" /\ b.of.data = fileField'[1].data]_vars

C17_Witness ==
    /\ FieldHoldsCrop
    /\ \E id \in {"A", "B"} :
          /\ fileField[1].data.of = id
          /\ ImageSize(id).width # ImageSize(id).height
          /\ ImageSize(id).width # 2048

DragOn == DragEnter \/ DragOver

DragOff == DragLeave \/ DropNoFile \/ \E file \in Candidates : Drop(file)

\* C18: the highlight of the drop zone is on after dragenter and dragover and
\* off after dragleave and after a drop, whether the dropped payload is
\* accepted, rejected or holds no file; no other step changes it; the default
\* action of none of the four drag events is run.
C18_HighlightFollowsDragOnly ==
    [][/\ DragOn => highlighted'
       /\ DragOff => ~highlighted'
       /\ highlighted' # highlighted => (DragOn \/ DragOff)
       /\ dragDefaults' = {}]_vars

C18_Witness ==
    /\ notice = UnsupportedMsg
    /\ FieldEmpty
    /\ ~highlighted
    /\ dragDefaults = {}

\* The state spec section 3 calls Pending, reached through a crop, with the
\* crop tool closed.
CropCommitted ==
    /\ ~Visible(modalHidden)
    /\ cropper = 0
    /\ live = {}
    /\ Visible(previewHidden)
    /\ ~Visible(dropHidden)
    /\ ~Visible(existingHidden)
    /\ ~deleteChecked
    /\ FieldHoldsCrop

\* C19: with no gesture after the confirm click and every resolution
\* eventually delivered, a confirm on an open session leads, unless the encode
\* fails, to a state with the modal hidden, the session destroyed, the live
\* preview visible and the other two regions hidden, the delete flag false
\* and the crop file in the file field.
C19_ConfirmEventuallyCommits ==
    (encodes # {}) ~> (CropCommitted \/ notice = CropFailedMsg)

\* C20: when the decode of an accepted candidate resolves and no crop hook is
\* registered, no crop session is opened, the file field holds the raw file,
\* the preview source is its data URL, the live preview is visible, the drop
\* zone and the existing-image view are hidden and the delete flag is false;
\* when the hook is registered the decode changes neither the region
\* visibility nor the delete flag.
C20_FallbackCommitsRawFile ==
    [][\A t \in fileReads :
          FileReadLoad(t) =>
             IF ~cropHook
             THEN /\ UNCHANGED cropVars
                  /\ cropper' = 0
                  /\ fileField' = <<t.file>>
                  /\ previewSrc' = DataURL(t.file)
                  /\ Visible(previewHidden')
                  /\ ~Visible(dropHidden')
                  /\ ~Visible(existingHidden')
                  /\ ~deleteChecked'
             ELSE UNCHANGED <<deleteChecked, dropHidden, existingHidden,
                              previewHidden>>]_vars

\* C21: when the decode of a confirmed crop's blob resolves after a delete
\* click, the state stays Deleted: the delete flag true, the drop zone
\* visible, the live preview and the existing-image view hidden and the file
\* field empty.
C21_StaleDecodeKeepsDelete ==
    [][\A t \in blobReads :
          (BlobReadLoad(t) /\ DeletedState) => DeletedState']_vars

\* C22: the resolution of an encode started on a session other than the one
\* now open leaves the open session alone: the reference, the live instance
\* and the modal's visibility are unchanged and the file field is not
\* overwritten.
C22_EncodeSparesOtherSession ==
    [][\A t \in encodes :
          ((EncodeResolve(t) \/ EncodeFail(t))
              /\ cropper # 0 /\ t.of.session # cropper)
             => /\ UNCHANGED cropVars
                /\ Visible(modalHidden')
                /\ fileField' = fileField]_vars

\* The file field holds a raw file that handleFileSelect accepted.
FieldHoldsAccepted ==
    /\ Len(fileField) = 1
    /\ fileField[1].data.kind = "raw"
    /\ validateFile(fileField[1]) = null

\* C23: once every selection's decode has resolved, an open crop session
\* shows the file that handleFileSelect last wrote to the file field: the
\* source of the crop image is the data URL of that file.
C23_SessionShowsLatestCandidate ==
    (cropper # 0 /\ fileReads = {} /\ FieldHoldsAccepted)
       => cropImageSrc = DataURL(fileField[1])

\* A run of startVerificationFlow ends without success.
FlowFails(f) ==
    \/ FetchReject(f)
    \/ FetchResolve(f, FALSE)
    \/ JsonReject(f)
    \/ \E data \in Payloads : ~safeParseSuccess(data) /\ JsonResolve(f, data)
    \/ \E error \in VerifyErrors \ {null} : VerifyResolve(f, error)

\* C24: the start button is disabled while a flow is in progress and at most
\* one flow is in flight; every run that ends without success (Stripe not
\* loaded, request failing or not OK, body not parseable or not valid,
\* verifyIdentity error) leaves the button enabled; a successful run leaves
\* it disabled.
C24_ButtonFollowsFlow ==
    [][/\ flows' # {} => btnDisabled'
       /\ Cardinality(flows') <= 1
       /\ (StartClick /\ ~stripe) => ~btnDisabled'
       /\ \A f \in flows :
             /\ FlowFails(f) => ~btnDisabled'
             /\ VerifyResolve(f, null) => btnDisabled']_vars

RowIndex(i) == parseInt(rows[i].index)

\* TOTAL_FORMS is its rendered value plus the adds; the rows' indices are
\* pairwise distinct and below TOTAL_FORMS.
LinksIndexed ==
    /\ parseInt(totalForms) = initialForms + nAdds
    /\ \A i \in 1..Len(rows) : RowIndex(i) < parseInt(totalForms)
    /\ \A i, j \in 1..Len(rows) : RowIndex(i) = RowIndex(j) => i = j

\* C25: after any sequence of add and remove clicks TOTAL_FORMS is its
\* initial value plus the number of adds and the row indices are pairwise
\* distinct and below it; an add appends a row carrying the index that
\* TOTAL_FORMS had before the click; a remove changes neither TOTAL_FORMS nor
\* any index: it checks that row's DELETE box and hides that row.
C25_FormsetIndexBookkeeping ==
    [][/\ LinksIndexed'
       /\ AddClick =>
             /\ Len(rows') = Len(rows) + 1
             /\ parseInt(rows'[Len(rows')].index) = parseInt(totalForms)
             /\ SubSeq(rows', 1, Len(rows)) = rows
       /\ \A i \in 1..Len(rows) :
             RemoveClick(i) =>
                /\ totalForms' = totalForms
                /\ Len(rows') = Len(rows)
                /\ \A j \in 1..Len(rows) : rows'[j].index = rows[j].index
                /\ \A j \in 1..Len(rows) : j # i => rows'[j] = rows[j]
                /\ rows'[i].delete /\ rows'[i].hidden]_vars

\* C25 witness: TOTAL_FORMS went from 9 to 11 by two adds, and a rendered
\* row and an added row were removed.
C25_Witness ==
    /\ initialForms = 9
    /\ totalForms = <<1, 1>>
    /\ \E i, j \in 1..Len(rows) :
          /\ rows[i].added /\ rows[i].hidden /\ rows[i].delete
          /\ ~rows[j].added /\ rows[j].hidden /\ rows[j].delete

====
